---------------------------- MODULE Spec2Model ----------------------------
(***************************************************************************)
(* Model of src/download_files_from_url_list.py: the Downloader class, the *)
(* ThreadPoolExecutor that main() drives, and the files they touch.        *)
(*                                                                         *)
(* Text is a sequence of one-character strings.  An identifier such as     *)
(* <<"h","/","a">> stands for the URL http://h/a: the part before the      *)
(* first "/" is urlparse's netloc, the part from it on is urlparse's path. *)
(* Python's 0-based list indexes are 1-based here.                         *)
(*                                                                         *)
(* The run is modelled with the default PRESERVE_PATHS = False (line 23),  *)
(* where download_path is DESTINATION_PATH, which exists, so the mkdir of  *)
(* lines 231-233 does nothing.  os.rename has its POSIX meaning: it        *)
(* replaces an existing destination, and an open file handle keeps         *)
(* following the file it was opened on.                                    *)
(***************************************************************************)
EXTENDS Naturals, Sequences, FiniteSets, TLC

\* ------------------------------------------------------------- bounds
\* The largest --threads value tried.
MaxThreads == 2
\* How many distinct values the clock reads of lines 179/193 can give.
NStamps == 2
\* Chunks in a response body (iter_content yields this many).
NChunks == 1
\* Runs of the program in a row on the same list and destination.
MaxRuns == 2
\* Longest list file tried in the loading specification.
MaxBody == 5
\* The --sleep value tried besides 0.
DelaySecs == 1

\* ------------------------------------------------------------- text
NL == "\n"
CR == "\r"
IsLineBreak(c) == c = NL \/ c = CR

Range(s) == { s[i] : i \in 1..Len(s) }

\* list.index(x): the first position of x (the caller checks x is there).
Index(s, x) == CHOOSE i \in 1..Len(s) : s[i] = x /\ \A j \in 1..(i-1) : s[j] # x

\* del list[i]
DelAt(s, i) == [ j \in 1..(Len(s)-1) |-> IF j < i THEN s[j] ELSE s[j+1] ]

\* re.split(r'[\r\n]+', body): the pieces between maximal runs of line
\* breaks, empty pieces at either end included.
RECURSIVE ReSplit(_, _, _, _)
ReSplit(body, i, cur, inRun) ==
  IF i > Len(body) THEN <<cur>>
  ELSE IF IsLineBreak(body[i])
       THEN IF inRun THEN ReSplit(body, i+1, cur, TRUE)
            ELSE <<cur>> \o ReSplit(body, i+1, <<>>, TRUE)
       ELSE ReSplit(body, i+1, Append(cur, body[i]), FALSE)

\* Dedupe without the membership test of line 142.
RECURSIVE DedupeKeepAll(_, _)
DedupeKeepAll(urls, final_list) ==
  IF urls = <<>> THEN final_list
  ELSE DedupeKeepAll(Tail(urls), Append(final_list, Head(urls)))

\* The loop of lines 141-143: append each url not yet in final_list.
RECURSIVE Dedupe(_, _)
Dedupe(urls, final_list) ==
  IF urls = <<>> THEN final_list
  ELSE IF Head(urls) \in Range(final_list)
       THEN Dedupe(Tail(urls), final_list)
       ELSE Dedupe(Tail(urls), Append(final_list, Head(urls)))

\* Downloader.__fetch_url_list
FetchUrlList(body) ==
  Dedupe(SelectSeq(ReSplit(body, 1, <<>>, FALSE), LAMBDA u : u # <<>>), <<>>)

\* '\n'.join(links)
RECURSIVE Join(_)
Join(ls) ==
  IF ls = <<>> THEN <<>>
  ELSE IF Len(ls) = 1 THEN ls[1]
  ELSE ls[1] \o <<NL>> \o Join(Tail(ls))

\* ------------------------------------------------------------- paths
\* urllib.parse.urlparse(url).netloc and .path
Netloc(url) ==
  IF "/" \in Range(url) THEN SubSeq(url, 1, Index(url, "/") - 1) ELSE url
UrlPath(url) ==
  IF "/" \in Range(url) THEN SubSeq(url, Index(url, "/"), Len(url)) ELSE <<>>

\* re.sub('.*/', '', path): what follows the last "/"
RECURSIVE LastSegment(_)
LastSegment(p) ==
  IF "/" \in Range(p) THEN LastSegment(SubSeq(p, Index(p, "/") + 1, Len(p))) ELSE p

\* Line 183: the last path segment, or unnamed_<netloc>_<time_ns>.
FileName(url, ns) ==
  IF LastSegment(UrlPath(url)) # <<>> THEN LastSegment(UrlPath(url))
  ELSE <<"unnamed_">> \o Netloc(url) \o <<"_", ns>>

\* Line 190 with download_path = DESTINATION_PATH: the path is the name.
FinalFilePath(url, ns) == FileName(url, ns)

\* Line 193: <file_name>.<time to the second>-<microsecond>.tmp
TempFile(url, ns) == FileName(url, ns) \o <<".", ns, ".tmp">>

\* What the clock can read.
Stamps == { ToString(i) : i \in 1..NStamps }
LessStamp(a, b) == \E i, j \in 1..NStamps : i < j /\ a = ToString(i) /\ b = ToString(j)

\* ------------------------------------------------------------- inputs
Alphabet == {"a", "b", NL, CR}

RECURSIVE SeqsUpTo(_, _)
SeqsUpTo(S, n) ==
  IF n = 0 THEN { <<>> }
  ELSE LET shorter == SeqsUpTo(S, n-1)
       IN  shorter \cup { Append(s, c) : s \in { t \in shorter : Len(t) = n-1 }, c \in S }

\* The list files of the loading specification.
LoadBodies == SeqsUpTo(Alphabet, MaxBody)

\* The list file of the run specification: http://h/a, http://g/a (the
\* same file name as the first), http://h/b, and http://h/a again.
RunBody ==
  <<"h","/","a", NL, "g","/","a", NL, "h","/","b", NL, "h","/","a">>

\* ------------------------------------------------------------- files
\* A file's content, chunk by chunk: the identifier whose stream wrote the
\* chunk last, <<>> where nothing is written.
EmptyFile == [ k \in 1..NChunks |-> <<>> ]
WholeFile(url) == [ k \in 1..NChunks |-> url ]

\* No open file, and an open file whose name was replaced by a rename.
NoPath == <<>>
Unlinked == <<"(deleted)">>

\* The file system maps the paths that exist to their content.
Exists(f, p) == p \in DOMAIN f
PutFile(f, p, c) == [ q \in DOMAIN f \cup {p} |-> IF q = p THEN c ELSE f[q] ]
RemoveFile(f, p) == [ q \in DOMAIN f \ {p} |-> f[q] ]

\* os.rename(src, dst): dst now names src's file; what dst named is gone.
Rename(f, src, dst) == PutFile(RemoveFile(f, src), dst, f[src])

\* ------------------------------------------------------------- state
VARIABLES
  body,            \* the list file as the operator wrote it
  urlFile,         \* the list file's content (url_list_file)
  fs,              \* the destination directory: path -> content
  thread_limit,    \* Downloader.thread_limit (--threads)
  download_delay,  \* Downloader.download_delay (--sleep)
  run,             \* which run of the program this is
  links,           \* Downloader.links
  completed_urls,  \* Downloader.completed_urls
  temp_files,      \* Downloader.temp_files
  started,         \* Downloader.__started
  abort,           \* Downloader.__abort
  mainpc,          \* where the main thread is
  it,              \* the list iterator of line 252: elements already taken
  futures,         \* the futures of line 252, by their identifier
  fut,             \* each identifier's future: its state and outcome
  workq,           \* the executor's work queue
  yielded,         \* futures as_completed has yielded
  exitCode,        \* the process's exit status
  reported,        \* temp files the except clause has reported
  fetched,         \* identifiers requests.get was called for in this run
  midTransfer,     \* the executions (identifier, temp path) mid-transfer when abort was set
  persisted,       \* the list file as the last completed write left it
  worker           \* each pool thread: its place and its locals

vars == << body, urlFile, fs, thread_limit, download_delay, run, links,
           completed_urls, temp_files, started, abort, mainpc, it, futures,
           fut, workq, yielded, exitCode, reported, fetched, midTransfer,
           persisted, worker >>

config == << body, thread_limit, download_delay >>
downloader == << links, completed_urls, temp_files, started, abort >>
mainvars == << mainpc, it, futures, yielded, exitCode, reported >>

Workers == 1..MaxThreads

Idle == [ pc |-> "idle", url |-> <<>>, ns |-> "", idx |-> 0, out |-> "",
          pos |-> 0, handle |-> NoPath ]

\* The process as it starts: class attributes at their defaults (lines
\* 123-128), no thread running.
FreshProcess ==
  /\ links = <<>>
  /\ completed_urls = <<>>
  /\ temp_files = <<>>
  /\ started = FALSE
  /\ abort = FALSE
  /\ mainpc = "construct"
  /\ it = 0
  /\ futures = <<>>
  /\ fut = <<>>
  /\ workq = <<>>
  /\ yielded = {}
  /\ exitCode = 0
  /\ reported = {}
  /\ fetched = {}
  /\ midTransfer = {}
  /\ worker = [ w \in Workers |-> Idle ]

Init ==
  /\ body = RunBody
  /\ urlFile = body
  /\ persisted = body
  /\ fs = <<>>
  /\ thread_limit \in 1..MaxThreads
  /\ download_delay \in {0, DelaySecs}
  /\ run = 1
  /\ FreshProcess

\* The loading specification starts from any list file.
InitLoad ==
  /\ body \in LoadBodies
  /\ urlFile = body
  /\ persisted = body
  /\ fs = <<>>
  /\ thread_limit = 1
  /\ download_delay = 0
  /\ run = 1
  /\ FreshProcess

\* ------------------------------------------------------------- main thread
\* Downloader.__init__ (line 248): read the list file into links.
Construct ==
  /\ mainpc = "construct"
  /\ links' = FetchUrlList(urlFile)
  /\ fut' = [ u \in Range(links') |-> "unsubmitted" ]
  /\ mainpc' = "submit"
  /\ UNCHANGED << config, persisted, urlFile, fs, run, completed_urls, temp_files, started,
                  abort, it, futures, workq, yielded, exitCode, reported,
                  fetched, midTransfer, worker >>

\* One turn of the comprehension of line 252: the list iterator yields
\* links[it] of the list as it is now, and executor.submit queues it.
Submit ==
  /\ mainpc = "submit"
  /\ it < Len(links)
  /\ LET url == links[it + 1]
     IN  /\ futures' = Append(futures, url)
         /\ fut' = [ fut EXCEPT ![url] = "queued" ]
         /\ workq' = Append(workq, url)
  /\ it' = it + 1
  /\ UNCHANGED << config, persisted, urlFile, fs, run, downloader, mainpc, yielded,
                  exitCode, reported, fetched, midTransfer, worker >>

\* The iterator is exhausted: the comprehension ends, as_completed begins.
SubmitDone ==
  /\ mainpc = "submit"
  /\ it >= Len(links)
  /\ mainpc' = "as_completed"
  /\ UNCHANGED << config, persisted, urlFile, fs, run, downloader, it, futures, fut, workq,
                  yielded, exitCode, reported, fetched, midTransfer, worker >>

IsDone(state) == state \in {"published", "skipped", "aborted", "failed"}

\* Lines 253-254: as_completed yields a finished future; future.result()
\* re-raises what the call raised, which nothing in main catches, so the
\* with statement's exit waits for the pool and the process ends on the
\* exception.
AsCompleted ==
  /\ mainpc = "as_completed"
  /\ \E url \in Range(futures) \ yielded :
       /\ IsDone(fut[url])
       /\ yielded' = yielded \cup {url}
       /\ IF fut[url] = "failed"
          THEN mainpc' = "shutdown" /\ exitCode' = 1
          ELSE mainpc' = "update_open" /\ exitCode' = exitCode
  /\ UNCHANGED << config, persisted, urlFile, fs, run, downloader, it, futures, fut, workq,
                  reported, fetched, midTransfer, worker >>

\* Line 161: open(url_list_file, 'w+') truncates the file.
UpdateOpen ==
  /\ mainpc = "update_open"
  /\ urlFile' = <<>>
  /\ mainpc' = "update_write"
  /\ UNCHANGED << config, persisted, fs, run, downloader, it, futures, fut, workq, yielded,
                  exitCode, reported, fetched, midTransfer, worker >>

\* Line 162 and the close: the joined links reach the file.
UpdateWrite ==
  /\ mainpc = "update_write"
  /\ urlFile' = Join(links)
  /\ persisted' = Join(links)
  /\ mainpc' = "as_completed"
  /\ UNCHANGED << config, fs, run, downloader, it, futures, fut, workq, yielded,
                  exitCode, reported, fetched, midTransfer, worker >>

\* Line 265: every future was yielded; 'Done!' is logged and the with
\* statement's exit waits for the pool.
Done ==
  /\ mainpc = "as_completed"
  /\ Range(futures) \subseteq yielded
  /\ mainpc' = "shutdown"
  /\ exitCode' = 0
  /\ UNCHANGED << config, persisted, urlFile, fs, run, downloader, it, futures, fut, workq,
                  yielded, reported, fetched, midTransfer, worker >>

\* An execution is mid-transfer: its temp file is registered and open, and
\* its stream is not written to the end.
MidTransfer(w) == worker[w].pc \in {"content", "iter", "write"}
                  /\ worker[w].pos < NChunks

\* Lines 257-259: Control-C reaches the main thread inside the try block;
\* the handler sets the abort flag.
KeyboardInterrupt ==
  /\ mainpc \in {"submit", "as_completed", "update_open", "update_write"}
  /\ abort' = TRUE
  /\ midTransfer' = { << worker[w].url, TempFile(worker[w].url, worker[w].ns) >> :
                        w \in { v \in Workers : MidTransfer(v) } }
  /\ mainpc' = "report"
  /\ UNCHANGED << config, persisted, urlFile, fs, run, links, completed_urls, temp_files,
                  started, it, futures, fut, workq, yielded, exitCode, reported,
                  fetched, worker >>

\* Lines 260-263: report the temp files registered now, then sys.exit(1);
\* the with statement's exit waits for the pool.
Report ==
  /\ mainpc = "report"
  /\ reported' = Range(temp_files)
  /\ mainpc' = "shutdown"
  /\ exitCode' = 1
  /\ UNCHANGED << config, persisted, urlFile, fs, run, downloader, it, futures, fut, workq,
                  yielded, fetched, midTransfer, worker >>

\* ThreadPoolExecutor.__exit__: shutdown(wait=True) returns once the
\* threads have run every queued call; the process then ends.
Exit ==
  /\ mainpc = "shutdown"
  /\ workq = <<>>
  /\ \A w \in Workers : worker[w].pc = "idle"
  /\ mainpc' = "exited"
  /\ UNCHANGED << config, persisted, urlFile, fs, run, downloader, it, futures, fut, workq,
                  yielded, exitCode, reported, fetched, midTransfer, worker >>

\* The operator runs the program again on the same list and destination
\* after a run that ended 'Done!'.
Rerun ==
  /\ mainpc = "exited"
  /\ exitCode = 0
  /\ run < MaxRuns
  /\ run' = run + 1
  /\ urlFile' = body
  /\ persisted' = body
  /\ links' = <<>>
  /\ completed_urls' = <<>>
  /\ temp_files' = <<>>
  /\ started' = FALSE
  /\ abort' = FALSE
  /\ mainpc' = "construct"
  /\ it' = 0
  /\ futures' = <<>>
  /\ fut' = <<>>
  /\ workq' = <<>>
  /\ yielded' = {}
  /\ exitCode' = 0
  /\ reported' = {}
  /\ fetched' = {}
  /\ midTransfer' = {}
  /\ worker' = [ w \in Workers |-> Idle ]
  /\ UNCHANGED << config, fs >>

\* ------------------------------------------------------------- pool threads
\* A temp path is taken when a file, a tracking entry or a running call
\* has it.
Taken(p) ==
  \/ Exists(fs, p)
  \/ p \in Range(temp_files)
  \/ \E v \in Workers : worker[v].ns # "" /\ TempFile(worker[v].url, worker[v].ns) = p

\* The clock reads of lines 179 and 193.  A reading matters only through
\* the temp path it gives, so a call reads either a value that gives a
\* taken path (a collision) or the least value that gives a free one.
ClockReads(url) ==
  { ns \in Stamps :
      \/ Taken(TempFile(url, ns))
      \/ \A other \in Stamps : Taken(TempFile(url, other)) \/ ~LessStamp(other, ns) }

\* What no pool thread changes.
mainstate == << body, thread_limit, download_delay, urlFile, run, abort, mainpc,
                it, futures, yielded, exitCode, reported, midTransfer,
                persisted >>

Set(w, rec) == worker' = [ worker EXCEPT ![w] = rec ]
\* A pool with no max_workers: every thread may run.
AtAny(w, pc) == worker[w].pc = pc

\* Line 250: the pool has thread_limit threads.
At(w, pc) == w <= thread_limit /\ worker[w].pc = pc

\* The call returns or raises: the future is done, the thread is free.
Return(w, outcome) ==
  /\ fut' = [ fut EXCEPT ![worker[w].url] = outcome ]
  /\ Set(w, Idle)

\* A pool whose threads take the newest queued call first.
TakeLast(w) ==
  /\ At(w, "idle")
  /\ \A v \in 1..(w-1) : worker[v].pc # "idle"
  /\ workq # <<>>
  /\ workq' = SubSeq(workq, 1, Len(workq) - 1)
  /\ IF abort
     THEN /\ fut' = [ fut EXCEPT ![workq[Len(workq)]] = "aborted" ]
          /\ UNCHANGED worker
     ELSE /\ fut' = [ fut EXCEPT ![workq[Len(workq)]] = "running" ]
          /\ Set(w, [ Idle EXCEPT !.pc = "exists", !.url = workq[Len(workq)] ])
  /\ UNCHANGED << mainstate, links, completed_urls, temp_files, started, fs,
                  fetched >>

\* A call without lines 173-174: a taken call always runs.
TakeUnchecked(w) ==
  /\ At(w, "idle")
  /\ \A v \in 1..(w-1) : worker[v].pc # "idle"
  /\ workq # <<>>
  /\ workq' = Tail(workq)
  /\ fut' = [ fut EXCEPT ![Head(workq)] = "running" ]
  /\ Set(w, [ Idle EXCEPT !.pc = "exists", !.url = Head(workq) ])
  /\ UNCHANGED << mainstate, links, completed_urls, temp_files, started, fs,
                  fetched >>

\* A pool thread takes the oldest queued call and runs lines 173-174:
\* with the abort flag set the call returns at once.  The threads are
\* interchangeable, so of the idle ones the lowest takes the call.
Take(w) ==
  /\ At(w, "idle")
  /\ \A v \in 1..(w-1) : worker[v].pc # "idle"
  /\ workq # <<>>
  /\ workq' = Tail(workq)
  /\ IF abort
     THEN /\ fut' = [ fut EXCEPT ![Head(workq)] = "aborted" ]
          /\ UNCHANGED worker
     ELSE /\ fut' = [ fut EXCEPT ![Head(workq)] = "running" ]
          /\ Set(w, [ Idle EXCEPT !.pc = "exists", !.url = Head(workq) ])
  /\ UNCHANGED << mainstate, links, completed_urls, temp_files, started, fs,
                  fetched >>

\* Lines 179-197: read the clock, derive the paths, and skip the download
\* when the final path exists.
CheckExists(w) ==
  /\ At(w, "exists")
  /\ \E ns \in ClockReads(worker[w].url) :
       IF Exists(fs, FinalFilePath(worker[w].url, ns))
       THEN Set(w, [ worker[w] EXCEPT !.pc = "cu_index", !.ns = ns, !.out = "skipped" ])
       ELSE Set(w, [ worker[w] EXCEPT !.pc = "started", !.ns = ns, !.out = "published" ])
  /\ UNCHANGED << mainstate, links, completed_urls, temp_files, started, fs,
                  fetched, fut, workq >>

\* The test of lines 200-202 without its elif: no execution sleeps.
StartedCheckNoSleep(w) ==
  /\ At(w, "started")
  /\ Set(w, [ worker[w] EXCEPT !.pc = IF ~started THEN "set_started" ELSE "append" ])
  /\ UNCHANGED << mainstate, links, completed_urls, temp_files, started, fs,
                  fetched, fut, workq >>

\* Lines 200-202: the test of __started and of download_delay.
StartedCheck(w) ==
  /\ At(w, "started")
  /\ Set(w, [ worker[w] EXCEPT !.pc =
                IF ~started THEN "set_started"
                ELSE IF download_delay # 0 THEN "sleep" ELSE "append" ])
  /\ UNCHANGED << mainstate, links, completed_urls, temp_files, started, fs,
                  fetched, fut, workq >>

\* Line 201
SetStarted(w) ==
  /\ At(w, "set_started")
  /\ started' = TRUE
  /\ Set(w, [ worker[w] EXCEPT !.pc = "append" ])
  /\ UNCHANGED << mainstate, links, completed_urls, temp_files, fs, fetched, fut,
                  workq >>

\* Lines 203-204: time.sleep(download_delay) returns.
Sleep(w) ==
  /\ At(w, "sleep")
  /\ Set(w, [ worker[w] EXCEPT !.pc = "append" ])
  /\ UNCHANGED << mainstate, links, completed_urls, temp_files, started, fs,
                  fetched, fut, workq >>

\* Line 207
AppendTemp(w) ==
  /\ At(w, "append")
  /\ temp_files' = Append(temp_files, TempFile(worker[w].url, worker[w].ns))
  /\ Set(w, [ worker[w] EXCEPT !.pc = "get" ])
  /\ UNCHANGED << mainstate, links, completed_urls, started, fs, fetched, fut,
                  workq >>

\* Lines 208-211: requests.get raises, or answers with or without a
\* content-length header and open(temp_file, 'wb') creates or truncates
\* the temp file.
Get(w) ==
  /\ At(w, "get")
  /\ fetched' = fetched \cup {worker[w].url}
  /\ \/ /\ Return(w, "failed")
        /\ fs' = fs
     \/ \E has_length \in BOOLEAN :
          /\ fs' = PutFile(fs, TempFile(worker[w].url, worker[w].ns), EmptyFile)
          /\ Set(w, [ worker[w] EXCEPT
                        !.pc = IF has_length THEN "iter" ELSE "content",
                        !.handle = TempFile(worker[w].url, worker[w].ns) ])
          /\ fut' = fut
  /\ UNCHANGED << mainstate, links, completed_urls, temp_files, started, workq >>

\* Line 212: response.content reads the whole body, which raises or is
\* written in one piece; the file is closed.
Content(w) ==
  /\ At(w, "content")
  /\ \/ /\ Return(w, "failed")
        /\ fs' = fs
     \/ /\ fs' = IF Exists(fs, worker[w].handle)
                 THEN PutFile(fs, worker[w].handle, WholeFile(worker[w].url))
                 ELSE fs
        /\ Set(w, [ worker[w] EXCEPT !.pc = "rename", !.handle = NoPath ])
        /\ fut' = fut
  /\ UNCHANGED << mainstate, links, completed_urls, temp_files, started, fetched,
                  workq >>

\* Lines 216-219 (222-225): the stream ends and the file is closed, or the
\* read raises, or it yields a chunk and the abort flag is tested.
Iter(w) ==
  /\ At(w, "iter")
  /\ \/ /\ worker[w].pos = NChunks
        /\ Set(w, [ worker[w] EXCEPT !.pc = "rename", !.handle = NoPath ])
        /\ fut' = fut
     \/ /\ worker[w].pos < NChunks
        /\ Return(w, "failed")
     \/ /\ worker[w].pos < NChunks
        /\ abort
        /\ Return(w, "aborted")
     \/ /\ worker[w].pos < NChunks
        /\ ~abort
        /\ Set(w, [ worker[w] EXCEPT !.pc = "write" ])
        /\ fut' = fut
  /\ UNCHANGED << mainstate, links, completed_urls, temp_files, started, fs,
                  fetched, workq >>

\* Line 220 (227): the chunk goes to the file the handle is open on.
Write(w) ==
  /\ At(w, "write")
  /\ fs' = IF Exists(fs, worker[w].handle)
           THEN [ fs EXCEPT ![worker[w].handle][worker[w].pos + 1] = worker[w].url ]
           ELSE fs
  /\ Set(w, [ worker[w] EXCEPT !.pc = "iter", !.pos = worker[w].pos + 1 ])
  /\ UNCHANGED << mainstate, links, completed_urls, temp_files, started, fetched,
                  fut, workq >>

\* Line 235: os.rename raises when the temp path is gone; otherwise the
\* final path names the temp file's content, and handles open on either
\* file follow their file.
RenameTemp(w) ==
  /\ At(w, "rename")
  /\ LET temp_file == TempFile(worker[w].url, worker[w].ns)
         final_file_path == FinalFilePath(worker[w].url, worker[w].ns)
     IN  IF ~Exists(fs, temp_file)
         THEN /\ Return(w, "failed")
              /\ fs' = fs
         ELSE /\ fs' = Rename(fs, temp_file, final_file_path)
              /\ worker' = [ v \in Workers |->
                   IF v = w THEN [ worker[v] EXCEPT !.pc = "rt_index" ]
                   ELSE IF worker[v].handle = temp_file
                        THEN [ worker[v] EXCEPT !.handle = final_file_path ]
                   ELSE IF worker[v].handle = final_file_path
                        THEN [ worker[v] EXCEPT !.handle = Unlinked ]
                   ELSE worker[v] ]
              /\ fut' = fut
  /\ UNCHANGED << mainstate, links, completed_urls, temp_files, started, fetched,
                  workq >>

\* Lines 149-150: the while test and temp_files.index(file); with no entry
\* left, remove_temp_file returns and __complete_url is called.
RemoveTempIndex(w) ==
  /\ At(w, "rt_index")
  /\ LET temp_file == TempFile(worker[w].url, worker[w].ns)
     IN  IF temp_file \in Range(temp_files)
         THEN Set(w, [ worker[w] EXCEPT !.pc = "rt_del",
                                        !.idx = Index(temp_files, temp_file) ])
         ELSE Set(w, [ worker[w] EXCEPT !.pc = "cu_index", !.idx = 0 ])
  /\ UNCHANGED << mainstate, links, completed_urls, temp_files, started, fs,
                  fetched, fut, workq >>

\* Line 150: del temp_files[index], an IndexError past the end; the loop
\* goes back to its test.
RemoveTempDel(w) ==
  /\ At(w, "rt_del")
  /\ IF worker[w].idx <= Len(temp_files)
     THEN /\ temp_files' = DelAt(temp_files, worker[w].idx)
          /\ Set(w, [ worker[w] EXCEPT !.pc = "rt_index", !.idx = 0 ])
          /\ fut' = fut
     ELSE /\ Return(w, "failed")
          /\ temp_files' = temp_files
  /\ UNCHANGED << mainstate, links, completed_urls, started, fs, fetched, workq >>

\* Lines 166-167: completed_urls.append(url) and links.index(url), a
\* ValueError when url is not in links.
CompleteUrlIndex(w) ==
  /\ At(w, "cu_index")
  /\ completed_urls' = Append(completed_urls, worker[w].url)
  /\ IF worker[w].url \in Range(links)
     THEN /\ Set(w, [ worker[w] EXCEPT !.pc = "cu_del",
                                       !.idx = Index(links, worker[w].url) ])
          /\ fut' = fut
     ELSE Return(w, "failed")
  /\ UNCHANGED << mainstate, links, temp_files, started, fs, fetched, workq >>

\* Line 167: del links[index], an IndexError past the end; then the call
\* returns (line 197 or the end of the function).
CompleteUrlDel(w) ==
  /\ At(w, "cu_del")
  /\ IF worker[w].idx <= Len(links)
     THEN /\ links' = DelAt(links, worker[w].idx)
          /\ Return(w, worker[w].out)
     ELSE /\ Return(w, "failed")
          /\ links' = links
  /\ UNCHANGED << mainstate, completed_urls, temp_files, started, fs, fetched,
                  workq >>

\* ------------------------------------------------------------- specification
Next ==
  \/ Construct
  \/ Submit
  \/ SubmitDone
  \/ AsCompleted
  \/ UpdateOpen
  \/ UpdateWrite
  \/ Done
  \/ KeyboardInterrupt
  \/ Report
  \/ Exit
  \/ Rerun
  \/ \E w \in Workers : Take(w)
  \/ \E w \in Workers : CheckExists(w)
  \/ \E w \in Workers : StartedCheck(w)
  \/ \E w \in Workers : SetStarted(w)
  \/ \E w \in Workers : Sleep(w)
  \/ \E w \in Workers : AppendTemp(w)
  \/ \E w \in Workers : Get(w)
  \/ \E w \in Workers : Content(w)
  \/ \E w \in Workers : Iter(w)
  \/ \E w \in Workers : Write(w)
  \/ \E w \in Workers : RenameTemp(w)
  \/ \E w \in Workers : RemoveTempIndex(w)
  \/ \E w \in Workers : RemoveTempDel(w)
  \/ \E w \in Workers : CompleteUrlIndex(w)
  \/ \E w \in Workers : CompleteUrlDel(w)

Spec == Init /\ [][Next]_vars

\* Loading alone: the constructor run on every list file within the bound.
NextLoad == Construct

SpecLoad == InitLoad /\ [][NextLoad]_vars

\* Sequential operation with a delay: --threads 1 --sleep DelaySecs.
InitSeq ==
  /\ body = RunBody
  /\ urlFile = body
  /\ persisted = body
  /\ fs = <<>>
  /\ thread_limit = 1
  /\ download_delay = DelaySecs
  /\ run = 1
  /\ FreshProcess

SpecSeq == InitSeq /\ [][Next]_vars

\* One run under fair scheduling.  WorkerStep(w) is whatever pool thread w
\* does next; a thread that can step does step (the interpreter switches
\* threads, time.sleep and the stream reads return), and the main thread
\* runs its except clause and the executor's shutdown.
WorkerStep(w) ==
  \/ Take(w)
  \/ CheckExists(w)
  \/ StartedCheck(w)
  \/ SetStarted(w)
  \/ Sleep(w)
  \/ AppendTemp(w)
  \/ Get(w)
  \/ Content(w)
  \/ Iter(w)
  \/ Write(w)
  \/ RenameTemp(w)
  \/ RemoveTempIndex(w)
  \/ RemoveTempDel(w)
  \/ CompleteUrlIndex(w)
  \/ CompleteUrlDel(w)

NextLive ==
  \/ Construct
  \/ Submit
  \/ SubmitDone
  \/ AsCompleted
  \/ UpdateOpen
  \/ UpdateWrite
  \/ Done
  \/ KeyboardInterrupt
  \/ Report
  \/ Exit
  \/ \E w \in Workers : WorkerStep(w)

Fairness ==
  /\ WF_vars(Report)
  /\ WF_vars(Exit)
  /\ \A w \in Workers : WF_vars(WorkerStep(w))

\* The list file of the fair runs: two identifiers with one final path.
LiveBody == <<"h", "/", "a", NL, "g", "/", "a">>

InitLive ==
  /\ body = LiveBody
  /\ urlFile = body
  /\ persisted = body
  /\ fs = <<>>
  /\ thread_limit \in 1..MaxThreads
  /\ download_delay \in {0, DelaySecs}
  /\ run = 1
  /\ FreshProcess

SpecLive == InitLive /\ [][NextLive]_vars /\ Fairness

\* ------------------------------------------------------------- properties
\* The deduplicated list as loaded at run start.
Loaded == FetchUrlList(body)

\* The final path an identifier's file is published at.
FinalOf(url) == FinalFilePath(url, ToString(1))

\* An identifier's execution has ended published or skipped-already-exists.
Retired(url) == fut[url] \in {"published", "skipped"}

\* The run is over: the pool has drained and the process has exited.
Terminated == mainpc = "exited"

\* The tracking entries that name a temp path.
EntriesOf(temp_file) ==
  { i \in 1..Len(temp_files) : temp_files[i] = temp_file }

\* A maximal run of characters that are not line breaks, from i to j.
IsLineAt(text, i, j) ==
  /\ 1 <= i /\ i <= j /\ j <= Len(text)
  /\ \A k \in i..j : ~IsLineBreak(text[k])
  /\ i = 1 \/ IsLineBreak(text[i-1])
  /\ j = Len(text) \/ IsLineBreak(text[j+1])

NonEmptyLines(text) ==
  { SubSeq(text, i, j) : i \in 1..Len(text), j \in 1..Len(text) } \cap
  { u \in UNION { [1..n -> Range(text)] : n \in 1..Len(text) } :
      \E i, j \in 1..Len(text) : IsLineAt(text, i, j) /\ u = SubSeq(text, i, j) }

\* Where a line first starts in the text.
FirstStart(text, u) ==
  CHOOSE i \in 1..Len(text) :
    /\ \E j \in i..Len(text) : IsLineAt(text, i, j) /\ SubSeq(text, i, j) = u
    /\ \A k \in 1..(i-1) :
         ~\E j \in k..Len(text) : IsLineAt(text, k, j) /\ SubSeq(text, k, j) = u

\* C1: after every write of the list file by the scheduler, the file holds,
\* in the original order, the loaded list minus exactly the identifiers
\* whose executions have ended published or skipped-already-exists.
C1_FileIsLoadedMinusRetired ==
  [][ (mainpc = "update_write" /\ mainpc' = "as_completed")
        => urlFile' = Join(SelectSeq(Loaded, LAMBDA u : ~Retired(u))) ]_vars

\* C2: without abort and without a failed execution, the run reaches
\* 'Done!' only with every loaded identifier's final file present and the
\* list file empty.
C2_DoneMeansAllPublished ==
  ( /\ mainpc \in {"shutdown", "exited"}
    /\ exitCode = 0
    /\ ~abort
    /\ \A u \in DOMAIN fut : fut[u] # "failed" )
  => ( /\ \A u \in Range(Loaded) : Exists(fs, FinalOf(u))
       /\ urlFile = <<>> )

\* C3: every identifier of the loaded list is handed to exactly one
\* download_with_progress_bar call: once the submitting loop has ended,
\* the calls submitted are the loaded list, each identifier once.
C3_EveryIdentifierDispatchedOnce ==
  mainpc = "as_completed" => futures = Loaded

\* C4: a final path is absent or holds one identifier's whole stream, and
\* no execution has a file at a final path open for writing.
C4_FinalPathAbsentOrComplete ==
  \A u \in Range(links) \cup DOMAIN fut :
    Exists(fs, FinalOf(u)) =>
      /\ \E v \in DOMAIN fut : FinalOf(v) = FinalOf(u) /\ fs[FinalOf(u)] = WholeFile(v)
      /\ \A w \in Workers : worker[w].handle # FinalOf(u)

\* C5: an identifier that was mid-transfer when the abort flag was set has,
\* once the run has terminated, no file at its final path, exactly one
\* tracking entry, and is still in the list file.  Stated for the runs in
\* which no call raises, so that what is left is the work of the abort alone.
C5_AbortMidTransferLeavesTemp ==
  (Terminated /\ abort /\ \A u \in DOMAIN fut : fut[u] # "failed") =>
    \A m \in midTransfer :
      /\ ~Exists(fs, FinalOf(m[1]))
      /\ Cardinality(EntriesOf(m[2])) = 1
      /\ m[1] \in Range(FetchUrlList(urlFile))

\* C6: an identifier leaves links only when its own execution ended
\* published or skipped-already-exists.
C6_OnlyRetiredLeaveQueue ==
  \A u \in DOMAIN fut : u \notin Range(links) => Retired(u)

\* C7: loading yields the non-empty lines of the file, each once, in the
\* order of their first occurrence.
C7_DedupWithOrder ==
  mainpc # "construct" =>
    /\ Range(links) = NonEmptyLines(body)
    /\ \A i, j \in 1..Len(links) :
         i < j => /\ links[i] # links[j]
                  /\ FirstStart(body, links[i]) < FirstStart(body, links[j])

\* C7's case: a list with a repeated line is loaded.
C7_Witness ==
  /\ mainpc # "construct"
  /\ body = <<"b", NL, "a", NL, "b">>
  /\ links = << <<"b">>, <<"a">> >>

\* C8: a second run on the same list and destination fetches nothing:
\* every execution of it ends skipped-already-exists.
C8_SecondRunFetchesNothing ==
  (run = 2 /\ ~abort) =>
    /\ fetched = {}
    /\ \A u \in DOMAIN fut : IsDone(fut[u]) => fut[u] = "skipped"

\* C9: a failed execution does not stop the run: when the scheduler stops
\* without an interrupt it has processed every completion, and it ends
\* normally.
C9_RunContinuesAfterFailure ==
  (mainpc \in {"shutdown", "exited"} /\ ~abort) =>
    /\ Range(futures) \subseteq yielded
    /\ exitCode = 0

\* C10: on an interrupted run, every tracking entry still registered at
\* termination was reported.
C10_SurvivingTempFilesReported ==
  (Terminated /\ abort) => Range(temp_files) \subseteq reported

\* C11: with thread_limit > 1 no execution sleeps the inter-download
\* delay.
C11_NoSleepWhenMultiThreaded ==
  thread_limit > 1 => \A w \in Workers : worker[w].pc # "sleep"

\* C12: removing an identifier from links removes its first match, and
\* when the identifier is not in links the removal raises nothing and
\* leaves links as it is.
C12_RemoveAbsentIsNoOp ==
  [][ \A w \in Workers :
        (worker[w].pc = "cu_index" /\ worker'[w] # worker[w]) =>
          IF worker[w].url \in Range(links)
          THEN /\ worker'[w].pc = "cu_del"
               /\ links[worker'[w].idx] = worker[w].url
               /\ \A j \in 1..(worker'[w].idx - 1) : links[j] # worker[w].url
          ELSE /\ links' = links
               /\ fut'[worker[w].url] # "failed" ]_vars

\* A removal is in flight: the index of line 167 is found, the delete is
\* not done.
InRemoval(w) == worker[w].pc = "cu_del"

\* The scheduler is inside update_url_file.
InPersist == mainpc \in {"update_open", "update_write"}

\* C13: mutation of links is serialized: no two removals are in flight
\* together, and no removal is in flight during the scheduler's persist.
C13_RemovalsSerialized ==
  /\ Cardinality({ w \in Workers : InRemoval(w) }) <= 1
  /\ InPersist => \A w \in Workers : ~InRemoval(w)

\* C14: once the abort flag is set no execution begins a transfer: no
\* tracking entry is registered and no fetch is issued.
C14_NoTransferBeginsAfterAbort ==
  [][ abort => /\ Len(temp_files') <= Len(temp_files)
               /\ fetched' \subseteq fetched ]_vars

\* An execution holds its temp file: it has registered it (line 207) and
\* has not yet left remove_temp_file (line 236).
Holding(w) ==
  worker[w].pc \in {"get", "content", "iter", "write", "rename", "rt_index", "rt_del"}

\* C15: the registered tracking entries are those of the executions now
\* writing a temp file: every entry belongs to such an execution, an
\* execution that has returned has none, and a writing one has exactly one.
C15_EntriesAreActiveWriters ==
  /\ \A i \in 1..Len(temp_files) :
       \E w \in Workers :
         Holding(w) /\ temp_files[i] = TempFile(worker[w].url, worker[w].ns)
  /\ \A w \in Workers :
       worker[w].pc \in {"get", "content", "iter", "write", "rename"} =>
         Cardinality(EntriesOf(TempFile(worker[w].url, worker[w].ns))) = 1

\* The temp paths the executions of a run can derive.
TempPaths == { TempFile(u, ns) : u \in Range(Loaded), ns \in Stamps }

\* C16: an execution's tracking entry is registered before its temp file
\* is opened or written and is deregistered only after its rename, so that
\* every temp file on disk has a registered entry.
C16_TempFileOnDiskIsRegistered ==
  /\ \A w \in Workers :
       worker[w].pc \in {"content", "iter", "write", "rename"} =>
         TempFile(worker[w].url, worker[w].ns) \in Range(temp_files)
  /\ \A p \in TempPaths : Exists(fs, p) => p \in Range(temp_files)

\* C17: after the abort flag is set the list file is not written again, and
\* at termination it holds what the last write completed before the
\* interrupt left in it.
C17_NoPersistAfterAbort ==
  [][ /\ abort => urlFile' = urlFile
      /\ (Terminated' /\ abort') => urlFile' = persisted' ]_vars

\* C18: with thread_limit = 1 and a delay configured, the first download
\* of a run starts without sleeping, every later one sleeps before it
\* starts, and an execution that is skipped never sleeps.
C18_DelayOnlyBetweenDownloads ==
  [][ (thread_limit = 1 /\ download_delay # 0) =>
        \A w \in Workers :
          /\ (worker[w].pc # "append" /\ worker'[w].pc = "append") =>
               IF fetched = {} THEN worker[w].pc = "set_started"
                               ELSE worker[w].pc = "sleep"
          /\ worker'[w].pc = "sleep" => worker'[w].out # "skipped" ]_vars

\* C18's case: after a download and a skip, a later download is sleeping.
C18_Witness ==
  /\ thread_limit = 1
  /\ download_delay # 0
  /\ \E u \in DOMAIN fut : fut[u] = "skipped"
  /\ \E w \in Workers : worker[w].pc = "sleep" /\ worker[w].url \notin fetched
  /\ fetched # {}

\* The executions that are active.
Active == { w \in Workers : worker[w].pc # "idle" }

\* C19: at most thread_limit executions are active at once, and a pool
\* thread runs its execution to the return before it takes another
\* identifier.
C19_AtMostThreadLimitActive ==
  [][ /\ Cardinality(Active') <= thread_limit'
      /\ Cardinality({ u \in DOMAIN fut' : fut'[u] = "running" }) <= thread_limit'
      /\ \A w \in Workers :
           (worker[w].pc # "idle" /\ worker'[w].url # worker[w].url) =>
             /\ worker'[w] = Idle
             /\ IsDone(fut'[worker[w].url]) ]_vars

\* C19's case: the one thread of the pool is busy and an identifier waits
\* in the executor's queue.
C19_Witness ==
  /\ thread_limit = 1
  /\ Active = {1}
  /\ workq # <<>>

\* A submitted call has been taken by a pool thread.
Started(url) == fut[url] \notin {"unsubmitted", "queued"}

\* C20: executions start in the order of the loaded list: calls are
\* submitted in that order, no call is taken before one submitted earlier,
\* and with thread_limit = 1 a call is taken only after every call
\* submitted before it has returned.
C20_StartInQueueOrder ==
  \A j \in 2..Len(futures) :
    LET queue == Loaded
    IN  \A i \in 1..(j-1) :
          /\ Index(queue, futures[i]) < Index(queue, futures[j])
          /\ Started(futures[j]) => Started(futures[i])
          /\ (thread_limit = 1 /\ Started(futures[j])) => IsDone(fut[futures[i]])

\* C20's case: with one thread, the first call has returned, the second
\* is running and the third waits.
C20_Witness ==
  /\ thread_limit = 1
  /\ Len(futures) = 3
  /\ IsDone(fut[futures[1]])
  /\ fut[futures[2]] = "running"
  /\ fut[futures[3]] = "queued"

\* C21: no two executions active at the same time use the same temp path.
C21_TempPathsDistinct ==
  \A v, w \in Workers :
    (v # w /\ Holding(v) /\ Holding(w)) =>
      TempFile(worker[v].url, worker[v].ns) # TempFile(worker[w].url, worker[w].ns)

\* C23: a published final path is not replaced during the run: of two
\* identifiers that derive the same final path at most one downloads and
\* renames.
C23_PublishedPathNotReplaced ==
  \A u, v \in DOMAIN fut :
    (u # v /\ FinalOf(u) = FinalOf(v)) =>
      ~(fut[u] = "published" /\ fut[v] = "published")

\* C24: once the list is loaded, and whenever no call is between lines 166
\* and 167, links and completed_urls are disjoint and together hold exactly
\* the loaded identifiers; within a run completed_urls only grows, and an
\* identifier in it does not come back into links.
C24_QueueAndCompletedPartition ==
  [][ /\ (mainpc' # "construct" /\ \A w \in Workers : ~InRemoval(w)')
         => /\ Range(links') \cap Range(completed_urls') = {}
            /\ Range(links') \cup Range(completed_urls') = DOMAIN fut'
      /\ run' = run
         => /\ Len(completed_urls') >= Len(completed_urls)
            /\ SubSeq(completed_urls', 1, Len(completed_urls)) = completed_urls
            /\ \A u \in Range(completed_urls) :
                 u \notin Range(links) => u \notin Range(links')
    ]_vars

\* The identifiers of the list the fair runs start from.
Identifiers == Range(FetchUrlList(LiveBody))

\* The state of an identifier's future, "unsubmitted" before the load.
FutureOf(u) == IF u \in DOMAIN fut THEN fut[u] ELSE "unsubmitted"

Queued(u) == FutureOf(u) = "queued"
Returned(u) == IsDone(FutureOf(u))

\* C22: once the abort flag is set, under fair scheduling, the run
\* terminates with every pool thread idle and every submitted call returned
\* (no thread is stopped from outside: each call returns by its own steps),
\* and a call still queued when the flag is set stays queued until it
\* returns aborted without a request.
C22_AbortTerminates ==
  /\ abort ~> /\ Terminated
              /\ \A w \in Workers : worker[w].pc = "idle"
              /\ \A u \in Range(futures) : Returned(u)
  /\ [][ \A u \in Identifiers :
           (abort /\ Queued(u)) =>
             \/ FutureOf(u)' = "queued"
             \/ FutureOf(u)' = "aborted" /\ u \notin fetched' ]_vars

\* An interrupted run has ended: an execution was mid-transfer at the
\* interrupt, and a queued call returned aborted without a request.
C22_Witness ==
  /\ Terminated
  /\ abort
  /\ midTransfer # {}
  /\ \E u \in DOMAIN fut : fut[u] = "aborted" /\ u \notin fetched
  /\ \A u \in Range(futures) : IsDone(fut[u])

=============================================================================
